---- MODULE Spec2Model ----
(***************************************************************************)
(* Model of utrace.Proc (src/utrace/proc.go): one traced task, its         *)
(* breakpoint table, its active regions and the tracee memory/registers    *)
(* the Proc reaches through the ptrace Tracer.                             *)
(*                                                                         *)
(* Addresses (uint64 / uintptr) are scaled down to 0..AddrSpace-1 and      *)
(* unsigned arithmetic wraps modulo AddrSpace.  The supervisor (not part   *)
(* of proc.go) is the environment: it constructs the Proc, and then        *)
(* alternates cont -> (tracee runs and stops with a trap) ->               *)
(* handleInterrupt, and may call exit() at any time.  Region.End and the   *)
(* tracer's PeekData/PokeData/Cont/Listen may fail, as the code's error    *)
(* branches provide for; GetRegs/SetRegs results are discarded by the      *)
(* code, so they have no failure branch here either.                       *)
(***************************************************************************)
EXTENDS Integers, Sequences, FiniteSets, TLC

\* ---------------------------------------------------------------- bounds
AddrSpace == 3      \* number of tracee addresses; uint64 wraps modulo this
NumRegions == 2     \* greatest length of the regions list handed to newTracedProc
MaxInherited == 1   \* most entries of an inherited breakpoint map
MaxTraps == 2       \* most trap stops the tracee runs into

Addr == 0..(AddrSpace - 1)
Ids == 0..(NumRegions - 1)

\* --------------------------------------------------------- program text
\* var interrupt = []byte{0xCC}
interrupt == <<204>>

ErrInvalidBreakpoint == "Invalid breakpoint"
ErrMemoryAccess == "MemoryAccess"
ErrRegionEnd == "RegionEndUnresolved"
ErrPieOffset == "PieOffset"
ErrTracer == "NotTraced"
ErrInvalidState == "invalid state"
ErrSpawn == "Spawn"
ErrWait == "Wait4"
ErrUnexpectedStop == "wait: received non SIGTRAP"
Nil == "nil"

RegionStart == "Start"
RegionEnd == "End"

\* The tracee's program text before any patching: one byte per address,
\* all different and none of them the trap opcode.
Text == [a \in Addr |-> 72 + a]

\* Stack pointers and signals the environment may present.
StackPointers == {0, 1}
SymbolOffsets == {0, 1}
PieOffsets == {0, 1}
Signals == {0, 5}

EmptyMap == [a \in {} |-> <<>>]

VARIABLES
    phase,        \* "init" | "ready" | "failed": before / after newTracedProc
    regionList,   \* input: symbol offset of each Region, in declared order
    breaks,       \* input: the inherited breakpoint map (empty for nil)
    pieOffset,    \* Proc.pieOffset
    regions,      \* Proc.regions: sequence of activeRegion
    breakpoints,  \* Proc.breakpoints: address -> saved bytes
    exited,       \* Proc.exited
    mem,          \* tracee memory, one byte per address
    regs,         \* tracee register file [Rip, Rsp]
    trapPending,  \* the supervisor has observed a trap stop not yet handled
    call,         \* the last Proc operation invoked
    args,         \* the arguments [sig, groupStop] of that call when it is cont
    err,          \* the error it returned
    events,       \* the events it returned to the supervisor
    ops,          \* the tracer operations it issued, in order
    errAt,        \* id of the region being handled when it returned an error, else -1
    traps,        \* number of trap stops so far
    lastRecv      \* per region id, the state of the last event the supervisor received

vars == <<phase, regionList, breaks, pieOffset, regions, breakpoints, exited,
          mem, regs, trapPending, call, args, err, events, ops, errAt, traps, lastRecv>>

Op(name, arg) == [op |-> name, arg |-> arg]

\* Region.Start(p): pie offset plus symbol offset (uint64 addition).
Start(off, pie) == (pie + off) % AddrSpace

Put(f, k, v) == [a \in (DOMAIN f) \cup {k} |-> IF a = k THEN v ELSE f[a]]
\* A delete that empties the table.
Del_All(f, k) == [a \in {} |-> <<>>]

Del(f, k) == [a \in (DOMAIN f) \ {k} |-> f[a]]

\* ------------------------------------------------- breakpoint patching
\* A machine m is [breakpoints, mem, ops, err]; fail names the tracer
\* operation that fails in this call ("none", "Peek", "Poke").
setBreak(m, pc, fail) ==
    IF pc \in DOMAIN m.breakpoints
    THEN [m EXCEPT !.err = Nil]
    ELSE IF fail = "Peek"
    THEN [m EXCEPT !.ops = Append(@, Op("PeekData", pc)), !.err = ErrMemoryAccess]
    ELSE IF fail = "Poke"
    THEN [m EXCEPT !.ops = @ \o <<Op("PeekData", pc), Op("PokeData", pc)>>,
                   !.err = ErrMemoryAccess]
    ELSE [m EXCEPT !.ops = @ \o <<Op("PeekData", pc), Op("PokeData", pc)>>,
                   !.mem = [@ EXCEPT ![pc] = interrupt[1]],
                   !.breakpoints = Put(@, pc, <<m.mem[pc]>>),
                   !.err = Nil]

\* A removeBreak that pokes the trap opcode instead of the saved bytes.
removeBreak_PokesTrap(m, pc, fail) ==
    IF pc \notin DOMAIN m.breakpoints
    THEN [m EXCEPT !.err = ErrInvalidBreakpoint]
    ELSE [m EXCEPT !.ops = Append(@, Op("PokeData", pc)),
                   !.mem = IF fail = "Poke" THEN @
                           ELSE [@ EXCEPT ![pc] = interrupt[1]],
                   !.breakpoints = Del(@, pc),
                   !.err = IF fail = "Poke" THEN ErrMemoryAccess ELSE Nil]

\* A removeBreak that takes an address without a table entry for a breakpoint
\* already removed.
removeBreak_Unchecked(m, pc, fail) ==
    IF pc \notin DOMAIN m.breakpoints
    THEN [m EXCEPT !.err = Nil]
    ELSE [m EXCEPT !.ops = Append(@, Op("PokeData", pc)),
                   !.mem = IF fail = "Poke" THEN @
                           ELSE [@ EXCEPT ![pc] = m.breakpoints[pc][1]],
                   !.breakpoints = Del(@, pc),
                   !.err = IF fail = "Poke" THEN ErrMemoryAccess ELSE Nil]

removeBreak(m, pc, fail) ==
    IF pc \notin DOMAIN m.breakpoints
    THEN [m EXCEPT !.err = ErrInvalidBreakpoint]
    ELSE [m EXCEPT !.ops = Append(@, Op("PokeData", pc)),
                   !.mem = IF fail = "Poke" THEN @
                           ELSE [@ EXCEPT ![pc] = m.breakpoints[pc][1]],
                   !.breakpoints = Del(@, pc),
                   !.err = IF fail = "Poke" THEN ErrMemoryAccess ELSE Nil]

\* The tracer operation that fails in a call is drawn from a plan: nothing
\* fails (at = -1), the restoring poke of removeBreak fails (at = 0), or at
\* the region at position at >= 1 the End function, the peek or the poke of
\* setBreak fails.  The code returns at the first error, so one failure per
\* call covers every outcome.
NoFail == [at |-> -1, kind |-> "none"]
BuildPlans == {NoFail} \cup
    {[at |-> k, kind |-> kd] : k \in 1..NumRegions, kd \in {"Peek", "Poke"}}
TrapPlans == BuildPlans \cup {[at |-> 0, kind |-> "Poke"]} \cup
    {[at |-> k, kind |-> "End"] : k \in 1..NumRegions}
FailOf(plan, i) == IF plan.at = i THEN plan.kind ELSE "none"

\* ---------------------------------------------------------- construction
\* The loop of newTracedProc from position i on.  st is
\* [breakpoints, mem, ops, err, regions].
RECURSIVE BuildFrom(_, _, _, _, _, _)
BuildFrom(i, st, list, inherited, pie, plan) ==
    IF i > Len(list) THEN st
    ELSE LET addr == Start(list[i], pie)
             m == IF addr \in DOMAIN inherited
                  THEN [st EXCEPT !.breakpoints = Put(@, addr, inherited[addr]),
                                  !.err = Nil]
                  ELSE setBreak(st, addr, FailOf(plan, i))
         IN IF m.err # Nil THEN m
            ELSE BuildFrom(i + 1,
                     [m EXCEPT !.regions = Append(@,
                         [region |-> list[i], state |-> RegionStart,
                          curInterrupt |-> Start(list[i], pie), id |-> i - 1])],
                     list, inherited, pie, plan)

\* A construction that arms the link-time addresses: the PIE offset is
\* recorded but not added.
newTracedProc_NoPie(list, inherited, pie, memory, plan) ==
    BuildFrom(1, [breakpoints |-> EmptyMap, mem |-> memory, ops |-> <<>>,
                  err |-> Nil, regions |-> <<>>],
              list, inherited, 0, plan)

newTracedProc(list, inherited, pie, memory, plan) ==
    BuildFrom(1, [breakpoints |-> EmptyMap, mem |-> memory, ops |-> <<>>,
                  err |-> Nil, regions |-> <<>>],
              list, inherited, pie, plan)

\* ---------------------------------------------------------- trap handling
\* The loop of handleInterrupt from position i on.  st is
\* [breakpoints, mem, ops, err, regions, events, errAt]; a return of
\* (nil, err) leaves events empty.
Fail(st, e, id) == [st EXCEPT !.events = <<>>, !.err = e, !.errAt = id]

\* A loop that lost its test of the armed address: every region fires.
Matches_Any(r, pc) == TRUE

\* if r.curInterrupt == uintptr(regs.Rip)
Matches(r, pc) == r.curInterrupt = pc

\* An event built after the transition: it carries the state the region has
\* moved to.
Emit_AfterFlip(evs, r) ==
    Append(evs, [Id |-> r.id,
                 State |-> IF r.state = RegionStart THEN RegionEnd ELSE RegionStart])

\* An emit that puts the new event first.
Emit_Prepend(evs, r) == <<[Id |-> r.id, State |-> r.state]>> \o evs

\* events = append(events, Event{Id: r.id, State: r.state})
Emit(evs, r) == Append(evs, [Id |-> r.id, State |-> r.state])

RECURSIVE LoopFrom(_, _, _, _, _, _)
LoopFrom(i, st, pc, pie, endAddr, plan) ==
    IF i > Len(st.regions) THEN st
    ELSE LET r == st.regions[i] IN
      IF ~Matches(r, pc) THEN LoopFrom(i + 1, st, pc, pie, endAddr, plan)
      ELSE LET s1 == [st EXCEPT !.events = Emit(@, r)] IN
        CASE r.state = RegionStart ->
               LET s2 == [s1 EXCEPT !.regions[i].state = RegionEnd] IN
               IF FailOf(plan, i) = "End" THEN Fail(s2, ErrRegionEnd, r.id)
               ELSE LET s3 == [s2 EXCEPT !.regions[i].curInterrupt = endAddr[i]]
                        s4 == setBreak(s3, endAddr[i], FailOf(plan, i))
                    IN IF s4.err # Nil THEN Fail(s4, s4.err, r.id)
                       ELSE LoopFrom(i + 1, s4, pc, pie, endAddr, plan)
          [] r.state = RegionEnd ->
               LET s2 == [s1 EXCEPT !.regions[i].state = RegionStart,
                                    !.regions[i].curInterrupt = Start(r.region, pie)]
                   s3 == setBreak(s2, s2.regions[i].curInterrupt, FailOf(plan, i))
               IN IF s3.err # Nil THEN Fail(s3, s3.err, r.id)
                  ELSE LoopFrom(i + 1, s3, pc, pie, endAddr, plan)
          [] OTHER -> Fail(s1, ErrInvalidState, r.id)

\* A rewind that is skipped.
Rewind_Skipped(r) == r

\* regs.Rip -= uint64(len(interrupt))
Rewind(r) == [r EXCEPT !.Rip = (r.Rip + AddrSpace - Len(interrupt)) % AddrSpace]

handleInterrupt(st, r, pie, endAddr, plan) ==
    LET pc == Rewind(r).Rip
        s0 == [st EXCEPT !.ops = <<Op("GetRegs", 0), Op("SetRegs", 0)>>]
        s1 == removeBreak(s0, pc, FailOf(plan, 0))
    IN IF s1.err # Nil THEN Fail(s1, s1.err, -1)
       ELSE LoopFrom(1, s1, pc, pie, endAddr, plan)

\* ------------------------------------------------------------------ state
NoArgs == [sig |-> 0, groupStop |-> FALSE]

Init ==
    /\ phase = "init"
    /\ regionList \in UNION {[1..n -> SymbolOffsets] : n \in 1..NumRegions}
    /\ \E K \in SUBSET Addr :
          /\ Cardinality(K) <= MaxInherited
          /\ breaks = [a \in K |-> <<Text[a]>>]
          /\ mem = [a \in Addr |-> IF a \in K THEN interrupt[1] ELSE Text[a]]
    /\ pieOffset = 0
    /\ regions = <<>>
    /\ breakpoints = EmptyMap
    /\ exited = FALSE
    /\ regs = [Rip |-> 0, Rsp |-> 0]
    /\ trapPending = FALSE
    /\ call = "none"
    /\ args = NoArgs
    /\ err = Nil
    /\ events = <<>>
    /\ ops = <<>>
    /\ errAt = -1
    /\ traps = 0
    /\ lastRecv = [i \in Ids |-> "none"]

\* newTracedProc(pid, pie, regions, breaks)
NewTracedProc ==
    /\ phase = "init"
    /\ call' = "newTracedProc"
    /\ args' = NoArgs
    /\ \/ \* pie.PieOffset(pid) fails
          /\ phase' = "failed"
          /\ err' = ErrPieOffset
          /\ ops' = <<>>
          /\ UNCHANGED <<pieOffset, regions, breakpoints, mem>>
       \/ \E off \in PieOffsets, plan \in BuildPlans :
            \E p \in {newTracedProc(regionList, breaks, off, mem, plan)} :
            /\ err' = p.err
            /\ ops' = p.ops
            /\ mem' = p.mem
            /\ IF p.err = Nil
               THEN /\ phase' = "ready"
                    /\ pieOffset' = off
                    /\ regions' = p.regions
                    /\ breakpoints' = p.breakpoints
               ELSE /\ phase' = "failed"
                    /\ UNCHANGED <<pieOffset, regions, breakpoints>>
    /\ UNCHANGED <<regionList, breaks, exited, regs, trapPending, events, errAt, traps, lastRecv>>

\* Positions of the regions armed at the address the pending trap rewinds to.
Firing == {i \in DOMAIN regions : Matches(regions[i], Rewind(regs).Rip)}

\* p.handleInterrupt(), called for a trap stop the supervisor observed
HandleInterrupt ==
    /\ phase = "ready"
    /\ trapPending
    /\ \E endAddr \in [Firing -> Addr], plan \in TrapPlans :
         /\ plan.at \in Firing \cup {-1, 0}
         /\ \E h \in {handleInterrupt(
                         [breakpoints |-> breakpoints, mem |-> mem, ops |-> <<>>,
                          err |-> Nil, regions |-> regions, events |-> <<>>,
                          errAt |-> -1],
                         regs, pieOffset, endAddr, plan)} :
               /\ regs' = Rewind(regs)
               /\ breakpoints' = h.breakpoints
               /\ mem' = h.mem
               /\ regions' = h.regions
               /\ events' = h.events
               /\ err' = h.err
               /\ errAt' = h.errAt
               /\ ops' = h.ops
               /\ lastRecv' = [i \in Ids |->
                      IF \E k \in DOMAIN h.events : h.events[k].Id = i
                      THEN (CHOOSE e \in {h.events[k] : k \in DOMAIN h.events} : e.Id = i).State
                      ELSE lastRecv[i]]
    /\ trapPending' = FALSE
    /\ call' = "handleInterrupt"
    /\ args' = NoArgs
    /\ UNCHANGED <<phase, regionList, breaks, pieOffset, exited, traps>>

\* A cont that swallows the pending signal.
cont_DropsSignal(ex, sig, groupStop, ok) ==
    IF ex THEN [ops |-> <<>>, err |-> Nil]
    ELSE IF groupStop
    THEN [ops |-> <<Op("Listen", 0)>>, err |-> IF ok THEN Nil ELSE ErrTracer]
    ELSE [ops |-> <<Op("Cont", 0)>>, err |-> IF ok THEN Nil ELSE ErrTracer]

\* A cont that does not look at the exited flag.
cont_IgnoresExited(ex, sig, groupStop, ok) ==
    IF groupStop
    THEN [ops |-> <<Op("Listen", 0)>>, err |-> IF ok THEN Nil ELSE ErrTracer]
    ELSE [ops |-> <<Op("Cont", sig)>>, err |-> IF ok THEN Nil ELSE ErrTracer]

\* p.cont(sig, groupStop): the tracer operation issued and the error
\* returned; ok says whether the tracer operation succeeds.
cont(ex, sig, groupStop, ok) ==
    IF ex THEN [ops |-> <<>>, err |-> Nil]
    ELSE IF groupStop
    THEN [ops |-> <<Op("Listen", 0)>>, err |-> IF ok THEN Nil ELSE ErrTracer]
    ELSE [ops |-> <<Op("Cont", sig)>>, err |-> IF ok THEN Nil ELSE ErrTracer]

\* p.cont(sig, groupStop); when the tracer resumes the tracee it runs to its
\* next stop, which is a trap with any registers or some other stop (whose
\* registers the Proc never reads).
Cont ==
    /\ phase = "ready"
    /\ ~trapPending
    /\ call' = "cont"
    /\ events' = <<>>
    /\ errAt' = -1
    /\ \E sig \in Signals, groupStop \in BOOLEAN, ok \in BOOLEAN :
         \E c \in {cont(exited, sig, groupStop, ok)} :
           /\ args' = [sig |-> sig, groupStop |-> groupStop]
           /\ ops' = c.ops
           /\ err' = c.err
           /\ IF c.err = Nil /\ c.ops # <<>> /\ c.ops[1].op = "Cont"
              THEN \/ /\ traps < MaxTraps
                      /\ trapPending' = TRUE
                      /\ traps' = traps + 1
                      /\ regs' \in [Rip : Addr, Rsp : StackPointers]
                   \/ UNCHANGED <<regs, trapPending, traps>>
              ELSE UNCHANGED <<regs, trapPending, traps>>
    /\ UNCHANGED <<phase, regionList, breaks, pieOffset, regions, breakpoints,
                   exited, mem, lastRecv>>

\* startProc(pie, target, args, regions): spawn the tracee, build the Proc
\* with no inherited map, reattach, wait for the attach-stop and continue.
\* how names the step that goes wrong ("none": nothing does): "Start" is
\* cmd.Start, "PieOffset" the PIE lookup inside newTracedProc, "ReAttach"
\* tracer.ReAttachAndContinue, "Wait4" the wait, "NonTrap" an attach-stop with
\* a signal other than SIGTRAP, "Cont" the final cont.  Every error return is
\* a plain return: nothing that construction did is undone.
StartOutcomes == {"none", "Start", "PieOffset", "ReAttach", "Wait4", "NonTrap", "Cont"}

startProc(list, off, memory, plan, how) ==
    LET none == [breakpoints |-> EmptyMap, mem |-> memory, ops |-> <<>>,
                 err |-> Nil, regions |-> <<>>]
        p == newTracedProc(list, EmptyMap, off, memory, plan)
        attached == [p EXCEPT !.ops = Append(@, Op("ReAttachAndContinue", 0))]
        c == cont(FALSE, 0, FALSE, how # "Cont")
    IN IF how = "Start" THEN [none EXCEPT !.err = ErrSpawn]
       ELSE IF how = "PieOffset" THEN [none EXCEPT !.err = ErrPieOffset]
       ELSE IF p.err # Nil THEN p
       ELSE IF how = "ReAttach" THEN [attached EXCEPT !.err = ErrTracer]
       ELSE IF how = "Wait4" THEN [attached EXCEPT !.err = ErrWait]
       ELSE IF how = "NonTrap" THEN [attached EXCEPT !.err = ErrUnexpectedStop]
       ELSE [attached EXCEPT !.ops = @ \o c.ops, !.err = c.err]

\* startProc as a step.  The spawned tracee is fresh: no map is inherited and
\* its text is unpatched.  A call that returns an error leaves the caller
\* without a Proc, the tracee's memory as construction left it.  After the
\* final cont the tracee runs to its next stop, as after Cont.
StartProc ==
    /\ phase = "init"
    /\ breaks = EmptyMap
    /\ call' = "startProc"
    /\ args' = NoArgs
    /\ \E off \in PieOffsets, plan \in BuildPlans, how \in StartOutcomes :
         \E p \in {startProc(regionList, off, mem, plan, how)} :
            /\ err' = p.err
            /\ ops' = p.ops
            /\ mem' = p.mem
            /\ IF p.err = Nil
               THEN /\ phase' = "ready"
                    /\ pieOffset' = off
                    /\ regions' = p.regions
                    /\ breakpoints' = p.breakpoints
                    /\ \/ /\ traps < MaxTraps
                          /\ trapPending' = TRUE
                          /\ traps' = traps + 1
                          /\ regs' \in [Rip : Addr, Rsp : StackPointers]
                       \/ UNCHANGED <<regs, trapPending, traps>>
               ELSE /\ phase' = "failed"
                    /\ UNCHANGED <<pieOffset, regions, breakpoints, regs,
                                   trapPending, traps>>
    /\ UNCHANGED <<regionList, breaks, exited, events, errAt, lastRecv>>

\* p.exit()
Exit ==
    /\ phase = "ready"
    /\ exited' = TRUE
    /\ call' = "exit"
    /\ args' = NoArgs
    /\ err' = Nil
    /\ events' = <<>>
    /\ ops' = <<>>
    /\ errAt' = -1
    /\ UNCHANGED <<phase, regionList, breaks, pieOffset, regions, breakpoints,
                   mem, regs, trapPending, traps, lastRecv>>

Next == NewTracedProc \/ StartProc \/ HandleInterrupt \/ Cont \/ Exit

Spec == Init /\ [][Next]_vars

\* ------------------------------------------------------------- properties
\* A step that is a handleInterrupt call: the only one that consumes the
\* pending trap.
TrapHandled == trapPending /\ ~trapPending'

\* C4: after every handleInterrupt, whatever it returns, the tracee's
\* instruction pointer is the one read at entry minus the trap-opcode length
\* (1, wrapping as uint64 does) and the stack pointer is written back as read.
C4_PcRewind ==
    [][TrapHandled =>
         /\ regs'.Rip = (regs.Rip + AddrSpace - 1) % AddrSpace
         /\ regs'.Rsp = regs.Rsp]_vars

\* C4 witness: a trap from an untracked source was handled, InvalidBreakpoint
\* was returned and the instruction pointer is left rewound (at the wrapped
\* address AddrSpace - 1, so the trap was read at 0).
C4_Witness ==
    /\ call = "handleInterrupt"
    /\ err = ErrInvalidBreakpoint
    /\ regs.Rip = AddrSpace - 1
    /\ regs.Rsp = 1

\* The armed addresses of the active regions.
Armed == {regions[i].curInterrupt : i \in DOMAIN regions}

\* The active region with the given id.
RegionOf(id) == regions[id + 1]

\* C1: per region, the event states the supervisor receives alternate
\* Start, End, Start, ... and begin with Start: an event for a region that
\* has sent none is Start, and any other differs from the region's last one.
C1_StateAlternation ==
    [][TrapHandled =>
         \A k \in DOMAIN events' :
            IF lastRecv[events'[k].Id] = "none"
            THEN events'[k].State = RegionStart
            ELSE events'[k].State # lastRecv[events'[k].Id]]_vars

\* C2: between Proc operations the set of armed addresses of the active
\* regions equals the set of keys of the breakpoint table.
C2_ArmedEqualsTable ==
    phase = "ready" => Armed = DOMAIN breakpoints

\* C3: every key of the breakpoint table holds the trap opcode in tracee
\* memory, its saved bytes are the program's bytes from before patching, and
\* removeBreak leaves the memory there equal to the saved bytes.
C3_TableMemoryConsistent ==
    phase = "ready" =>
      \A a \in DOMAIN breakpoints :
         /\ mem[a] = interrupt[1]
         /\ breakpoints[a] = <<Text[a]>>
         /\ removeBreak([breakpoints |-> breakpoints, mem |-> mem,
                         ops |-> <<>>, err |-> Nil], a, "none").mem[a]
              = breakpoints[a][1]

\* C5: arming an address that is in the table changes neither the table nor
\* the memory and issues no tracer operation; when two regions are armed at
\* the same address one entry serves both, and it holds the program's true
\* original byte, which one removeBreak restores.
C5_IdempotentArming ==
    phase = "ready" =>
      \A a \in DOMAIN breakpoints :
         LET m == [breakpoints |-> breakpoints, mem |-> mem, ops |-> <<>>, err |-> Nil]
         IN /\ \A f \in {"none", "Peek", "Poke"} : setBreak(m, a, f) = m
            /\ (\E i, j \in DOMAIN regions :
                   i # j /\ regions[i].curInterrupt = a /\ regions[j].curInterrupt = a)
               => /\ breakpoints[a] # interrupt
                  /\ removeBreak(m, a, "none").mem[a] = Text[a]

\* C6: a child built with a parent's breakpoint map has a table equal to that
\* map, and its construction issues no PokeData.
C6_InheritedRoundTrip ==
    (call = "newTracedProc" /\ err = Nil /\ DOMAIN breaks # {}) =>
       /\ breakpoints = breaks
       /\ \A k \in DOMAIN ops : ops[k].op # "PokeData"

\* The events handleInterrupt owes for a trap at pc: one per region armed at
\* pc, in declared order, carrying the state the region has on entry.
RECURSIVE Owed(_, _, _)
Owed(rs, pc, i) ==
    IF i > Len(rs) THEN <<>>
    ELSE (IF rs[i].curInterrupt = pc
          THEN <<[Id |-> i - 1, State |-> rs[i].state]>> ELSE <<>>)
         \o Owed(rs, pc, i + 1)

Flip(s) == IF s = RegionStart THEN RegionEnd ELSE RegionStart

\* What C7 asks of a trap step at an address several regions are armed at.
CoLocatedHandled ==
    /\ events' = Owed(regions, regs'.Rip, 1)
    /\ \A i \in Firing :
          /\ regions'[i].state = Flip(regions[i].state)
          /\ regions'[i].curInterrupt \in DOMAIN breakpoints'
          /\ regions[i].state = RegionEnd =>
                regions'[i].curInterrupt = Start(regionList[i], pieOffset)

C8_StartEventKept ==
    (call = "handleInterrupt" /\ err = ErrRegionEnd) =>
       \E k \in DOMAIN events : events[k] = [Id |-> errAt, State |-> RegionStart]

\* C9: after the End function of a region failed, the region is in state End,
\* its recorded armed address is no longer the old Start address (the trap
\* address), and that address is out of the table and restored in memory.
C9_EndFailureState ==
    (call = "handleInterrupt" /\ err = ErrRegionEnd) =>
       /\ RegionOf(errAt).state = RegionEnd
       /\ RegionOf(errAt).curInterrupt # regs.Rip
       /\ regs.Rip \notin DOMAIN breakpoints
       /\ mem[regs.Rip] = Text[regs.Rip]

\* C10 (as stated): once exit() has been called, no operation invoked on the
\* Proc issues a tracer operation.
C10_NoOpsAfterExit ==
    (exited /\ call \in {"cont", "handleInterrupt"}) => ops = <<>>

\* C10 (amended): once exit() has been called, cont issues no tracer
\* operation and returns no error.
C10_ContAfterExit ==
    (exited /\ call = "cont") => (ops = <<>> /\ err = Nil)

\* C10 witness: cont was called on an exited Proc.
C10_Witness ==
    /\ exited
    /\ call = "cont"
    /\ traps > 0

\* C11: cont(sig, groupStop) on an exited Proc issues no tracer operation and
\* returns no error; otherwise with groupStop it issues Listen alone, and
\* otherwise Cont alone with exactly the signal it was given.  The exited
\* flag, once set, stays set.
C11_ContDispatch ==
    [][/\ exited => exited'
       /\ call' = "cont" =>
            IF exited THEN ops' = <<>> /\ err' = Nil
            ELSE IF args'.groupStop THEN ops' = <<Op("Listen", 0)>>
            ELSE ops' = <<Op("Cont", args'.sig)>>]_vars

\* C11 witness: a live Proc was continued with the pending signal 5 and
\* issued Cont with that signal.
C11_Witness ==
    /\ call = "cont"
    /\ ~exited
    /\ args = [sig |-> 5, groupStop |-> FALSE]
    /\ ops = <<Op("Cont", 5)>>
    /\ err = Nil

\* C12: a trap whose rewound address is no key of the breakpoint table makes
\* handleInterrupt return InvalidBreakpoint with no events; nothing is written
\* to tracee memory, and the table and every region's state and armed address
\* are as they were.
C12_UntrackedTrap ==
    [][(TrapHandled /\ Rewind(regs).Rip \notin DOMAIN breakpoints) =>
         /\ err' = ErrInvalidBreakpoint
         /\ events' = <<>>
         /\ \A k \in DOMAIN ops' : ops'[k].op \notin {"PokeData", "PeekData"}
         /\ mem' = mem
         /\ breakpoints' = breakpoints
         /\ regions' = regions]_vars

\* C12 witness: with breakpoints installed, a trap at an address outside the
\* table was handled and InvalidBreakpoint came back, with the patches and
\* the regions still in place.
C12_Witness ==
    /\ call = "handleInterrupt"
    /\ err = ErrInvalidBreakpoint
    /\ events = <<>>
    /\ regs.Rip \notin DOMAIN breakpoints
    /\ DOMAIN breakpoints # {}
    /\ \A a \in DOMAIN breakpoints : mem[a] = interrupt[1]
    /\ \A i \in DOMAIN regions : regions[i].state = RegionStart

\* C13: when startProc fails because the attach-stop carries a signal other
\* than SIGTRAP, it returns an error and every address patched during
\* construction holds its original byte again: no breakpoint stays installed
\* in the tracee.
C13_FailedSpawnClean ==
    (call = "startProc" /\ err = ErrUnexpectedStop) =>
        \A a \in Addr : mem[a] = Text[a]

\* What C14 asks of a trap step for the region at position i, in state End on
\* entry: any event the call returns for it is its End event, fired at the
\* address recorded as armed for it.
EndEventOnly(i) ==
    \A k \in DOMAIN events' :
        events'[k].Id = i - 1 =>
            /\ events'[k].State = RegionEnd
            /\ regions[i].curInterrupt = regs'.Rip

\* No event for the region at position i is returned by the step.
NoEventFor(i) == \A k \in DOMAIN events' : events'[k].Id # i - 1

\* C14 (as stated): while a region is in state End, a trap at its Start
\* address yields no event for it, since its Start address is not armed; the
\* next event for it is End, fired at the End address recorded at entry.
C14_RecursionAlways ==
    [][TrapHandled =>
         \A i \in DOMAIN regions :
            regions[i].state = RegionEnd =>
              /\ EndEventOnly(i)
              /\ regs'.Rip = Start(regionList[i], pieOffset) => NoEventFor(i)]_vars

\* C14 (amended): the same for a region in state End whose armed address is
\* not its own Start address; such a region is also left as it was.
C14_Recursion ==
    [][TrapHandled =>
         \A i \in DOMAIN regions :
            regions[i].state = RegionEnd =>
              /\ EndEventOnly(i)
              /\ (/\ regs'.Rip = Start(regionList[i], pieOffset)
                  /\ regions[i].curInterrupt # Start(regionList[i], pieOffset))
                 => (NoEventFor(i) /\ regions'[i] = regions[i])]_vars

\* C14 witness: region 0 is inside its region (state End, its Start event
\* received), a trap at its Start address was handled for another region,
\* and the call returned events but none for region 0.
C14_Witness ==
    /\ call = "handleInterrupt"
    /\ err = Nil
    /\ regs.Rip = Start(regionList[1], pieOffset)
    /\ regions[1].state = RegionEnd
    /\ regions[1].curInterrupt # regs.Rip
    /\ lastRecv[0] = RegionStart
    /\ events # <<>>
    /\ \A k \in DOMAIN events : events[k].Id # 0

\* C15: for a single region whose End address R differs from its Start
\* address S, handling the Start trap and then the End trap emits (0, Start)
\* and then (0, End), and after the End trap the Proc is as construction left
\* it: the region is in state Start armed at S, the table is exactly
\* {S: the original byte of S}, and memory at R holds its original byte.
C15_FullCycle ==
    [][(/\ TrapHandled
        /\ Len(regions) = 1
        /\ regions[1].state = RegionEnd
        /\ regions[1].curInterrupt = regs'.Rip
        /\ regs'.Rip # Start(regionList[1], pieOffset)
        /\ err' = Nil)
       => /\ lastRecv[0] = RegionStart
          /\ events' = <<[Id |-> 0, State |-> RegionEnd]>>
          /\ regions' = <<[region |-> regionList[1], state |-> RegionStart,
                           curInterrupt |-> Start(regionList[1], pieOffset),
                           id |-> 0]>>
          /\ DOMAIN breakpoints' = {Start(regionList[1], pieOffset)}
          /\ \A a \in DOMAIN breakpoints' : breakpoints'[a] = <<Text[a]>>
          /\ mem'[regs'.Rip] = Text[regs'.Rip]]_vars

\* The restoring poke at the trap address is the first memory operation of
\* the step, ahead of every peek and poke that arms a breakpoint.
RestoredFirst ==
    /\ Len(ops') >= 3
    /\ ops'[3] = Op("PokeData", regs'.Rip)
    /\ \A k \in 1..2 : ops'[k].op \notin {"PeekData", "PokeData"}

C17_EmissionRule ==
    [][(TrapHandled /\ err' = Nil) =>
         /\ events' = Owed(regions, regs'.Rip, 1)
         /\ \A i \in DOMAIN regions :
              /\ regions[i].id = i - 1
              /\ regions'[i].state =
                    IF regions[i].curInterrupt = regs'.Rip
                    THEN Flip(regions[i].state) ELSE regions[i].state]_vars

\* C17 witness: of two regions only region 1 was armed at the trap address,
\* in state End; the call returned its End event alone and region 1 is back
\* in state Start while region 0 stays in state Start.
C17_Witness ==
    /\ call = "handleInterrupt"
    /\ err = Nil
    /\ Len(regions) = 2
    /\ events = <<[Id |-> 1, State |-> RegionEnd]>>
    /\ regions[2].state = RegionStart
    /\ regions[1].state = RegionStart
    /\ regions[1].curInterrupt # regs.Rip

\* C18: when construction succeeds the Proc has one active region per Region
\* given, in the given order, with id equal to its position, state Start and
\* armed address the Start address computed from the PIE offset; the keys of
\* the breakpoint table are exactly the Start addresses; and the PIE offset
\* of a constructed Proc never changes.
C18_Construction ==
    [][/\ (phase = "init" /\ phase' = "ready") =>
            /\ Len(regions') = Len(regionList)
            /\ \A i \in DOMAIN regions' :
                  regions'[i] = [region |-> regionList[i], state |-> RegionStart,
                                 curInterrupt |-> Start(regionList[i], pieOffset'),
                                 id |-> i - 1]
            /\ DOMAIN breakpoints' =
                  {Start(regionList[i], pieOffset') : i \in DOMAIN regionList}
       /\ phase = "ready" => pieOffset' = pieOffset]_vars

\* C18 witness: a Proc was built at PIE offset 1 for two regions with the
\* same Start address, with an inherited map: both are in state Start, armed
\* at that one address, which is the only key of the table.
C18_Witness ==
    /\ call = "newTracedProc"
    /\ err = Nil
    /\ phase = "ready"
    /\ pieOffset = 1
    /\ breaks # EmptyMap
    /\ Len(regions) = 2
    /\ regions[1].curInterrupt = Start(regionList[1], 1)
    /\ regions[2].curInterrupt = regions[1].curInterrupt
    /\ regions[2].id = 1
    /\ DOMAIN breakpoints = {regions[1].curInterrupt}

\* C19: for a Proc built on an unpatched tracee, whatever calls follow and
\* whichever peek or poke fails, every address either holds its original byte
\* in tracee memory or has it as the saved bytes of its table entry; no entry
\* saves the trap opcode; and no address holds the trap opcode without a
\* table entry.
C19_OriginalKept ==
    (phase = "ready" /\ breaks = EmptyMap) =>
        \A a \in Addr :
            /\ \/ mem[a] = Text[a]
               \/ a \in DOMAIN breakpoints /\ breakpoints[a] = <<Text[a]>>
            /\ a \in DOMAIN breakpoints => breakpoints[a] # interrupt
            /\ mem[a] = interrupt[1] => a \in DOMAIN breakpoints

\* The addresses the step armed: the armed addresses, on return, of the
\* regions that were armed at the trap address on entry.
NewlyArmed == {regions'[i].curInterrupt : i \in Firing}

\* C20: a handleInterrupt at pc, whatever it returns, leaves the state and
\* armed address of every region not armed at pc on entry as they were,
\* leaves every table entry at an address other than pc and the newly armed
\* addresses as it was, and changes neither the length or order of the region
\* list, nor any region's id or Region, nor the PIE offset, nor the exited
\* flag.
C20_Frame ==
    [][TrapHandled =>
         /\ Len(regions') = Len(regions)
         /\ \A i \in DOMAIN regions :
              /\ regions'[i].id = regions[i].id
              /\ regions'[i].region = regions[i].region
              /\ i \notin Firing => regions'[i] = regions[i]
         /\ \A a \in Addr \ ({regs'.Rip} \cup NewlyArmed) :
              /\ a \in DOMAIN breakpoints' <=> a \in DOMAIN breakpoints
              /\ a \in DOMAIN breakpoints => breakpoints'[a] = breakpoints[a]
         /\ pieOffset' = pieOffset
         /\ exited' = exited]_vars

\* C20 witness: region 0 fired its Start trap and was rearmed elsewhere while
\* region 1, armed at another address, is still in state Start with its
\* table entry and its patch in place.
C20_Witness ==
    /\ call = "handleInterrupt"
    /\ err = Nil
    /\ Len(regions) = 2
    /\ events = <<[Id |-> 0, State |-> RegionStart]>>
    /\ regions[2].state = RegionStart
    /\ regions[2].curInterrupt = Start(regionList[2], pieOffset)
    /\ regions[2].curInterrupt \notin {regs.Rip, regions[1].curInterrupt}
    /\ regions[2].curInterrupt \in DOMAIN breakpoints
    /\ breakpoints[regions[2].curInterrupt] = <<Text[regions[2].curInterrupt]>>

====
